---------------------------- MODULE Spec2Model ----------------------------
(***************************************************************************)
(* Model of src/src/main.rs (wordora_ai): a first-order Markov chain over  *)
(* tokens.  MarkovChain::learn tokenizes a text and records, for every     *)
(* token, the tokens that followed it; MarkovChain::generate walks the     *)
(* table by weighted sampling and, on a dead end, calls itself again with  *)
(* the seed "。" and the length 20.                                        *)
(*                                                                         *)
(* A Rust String is modelled as the sequence of its chars, a char as its   *)
(* Unicode code point.  Vec<String> is a sequence of such sequences.       *)
(***************************************************************************)
EXTENDS Integers, Sequences, FiniteSets, TLC

VARIABLES
    pc,         \* position: "start", "learn", "loop", "generate", "print", "exit", "overflow", "panic";
                \* "fn", "fn_done" where a tokenizer function is called on its own
    words,      \* MarkovChain.words: HashMap<String, Word>, as a function on its key set
    separated,  \* learn's local `separated`
    i,          \* learn's loop variable `i` (0-based)
    stack,      \* the activation records of generate, innermost last
    response,   \* main's `response`, the string the outermost generate returned
    input,      \* main's `input` after trim
    start_word, \* main's `start_word`
    learned,    \* history: the `separated` of every learn call so far, in order
    before,     \* history: `words` as it was when the last learn call began
    call,       \* history: what the outermost generate call did
    fn_name,    \* the tokenizer function called on its own ("none": not yet)
    fn_arg,     \* its string argument
    fn_width,   \* its chunk_size argument (chunk_string only)
    fn_out      \* the Vec<String> it returned

fn_vars == <<fn_name, fn_arg, fn_width, fn_out>>

vars == <<pc, words, separated, i, stack, response, input, start_word, learned, before, call,
          fn_name, fn_arg, fn_width, fn_out>>

-----------------------------------------------------------------------------
(* Characters.                                                             *)

SP == 32          \* ' ', pushed between tokens (main.rs:90) and used by join (main.rs:119)
FULL_STOP == 12290 \* '。' (U+3002)

\* char::is_whitespace: the Unicode White_Space property (split_whitespace, main.rs:37, 119)
is_whitespace(c) ==
    \/ c \in 9..13
    \/ c \in {32, 133, 160, 5760, 8232, 8233, 8239, 8287, 12288}
    \/ c \in 8192..8202

\* The four alternatives of the regex of main.rs:116, in its order:
\* 1 [一-龯] (U+4E00..U+9FAF), 2 [ぁ-ん] (U+3041..U+3093),
\* 3 [ァ-ヴー] (U+30A1..U+30F4, U+30FC), 4 [。、a-zA-Z]; 0 is a char of no alternative.
char_class(c) ==
    IF c \in 19968..40879 THEN 1
    ELSE IF c \in 12353..12435 THEN 2
    ELSE IF c \in 12449..12532 \/ c = 12540 THEN 3
    ELSE IF c \in {12290, 12289} \/ c \in 97..122 \/ c \in 65..90 THEN 4
    ELSE 0

-----------------------------------------------------------------------------
(* Strings and vectors.                                                    *)

RECURSIVE concat(_)
\* Vec::extend over a sequence of vectors / join(""): the parts one after another
concat(parts) ==
    IF parts = << >> THEN << >> ELSE Head(parts) \o concat(Tail(parts))

RECURSIVE join(_, _)
\* [String].join(sep)
join(parts, sep) ==
    IF parts = << >> THEN << >>
    ELSE IF Len(parts) = 1 THEN parts[1]
    ELSE parts[1] \o sep \o join(Tail(parts), sep)

RECURSIVE split_from(_, _)
\* str::split_whitespace from position p (1-based): the non-empty maximal runs
\* of chars that are not whitespace
split_from(s, p) ==
    IF p > Len(s) THEN << >>
    ELSE IF is_whitespace(s[p]) THEN split_from(s, p + 1)
    ELSE LET stop == {q \in p..Len(s) : is_whitespace(s[q])}
             e == IF stop = {} THEN Len(s)
                  ELSE (CHOOSE q \in stop : \A r \in stop : q <= r) - 1
         IN  <<SubSeq(s, p, e)>> \o split_from(s, e + 1)

split_whitespace(s) == split_from(s, 1)

RECURSIVE find_iter_any_from(_, _)
\* find_iter for a regex with the four classes in one bracket
find_iter_any_from(s, p) ==
    IF p > Len(s) THEN << >>
    ELSE IF char_class(s[p]) = 0 THEN find_iter_any_from(s, p + 1)
    ELSE LET stop == {q \in p..Len(s) : char_class(s[q]) = 0}
             e == IF stop = {} THEN Len(s)
                  ELSE (CHOOSE q \in stop : \A r \in stop : q <= r) - 1
         IN  <<SubSeq(s, p, e)>> \o find_iter_any_from(s, e + 1)

\* mutant of find_iter: one class instead of four
find_iter_any(s) == find_iter_any_from(s, 1)

RECURSIVE find_iter_from(_, _)
\* Regex::find_iter from position p: the leftmost match starts at the first char
\* of some alternative; that alternative is the only one that can match there
\* (the classes are disjoint) and its greedy + takes every following char of
\* the same class; the next search starts after the match.
find_iter_from(s, p) ==
    IF p > Len(s) THEN << >>
    ELSE IF char_class(s[p]) = 0 THEN find_iter_from(s, p + 1)
    ELSE LET stop == {q \in p..Len(s) : char_class(s[q]) # char_class(s[p])}
             e == IF stop = {} THEN Len(s)
                  ELSE (CHOOSE q \in stop : \A r \in stop : q <= r) - 1
         IN  <<SubSeq(s, p, e)>> \o find_iter_from(s, e + 1)

find_iter(s) == find_iter_from(s, 1)

\* fn separate_tokens (main.rs:115-120)
separate_tokens(text) == split_whitespace(join(find_iter(text), <<SP>>))

RECURSIVE chunk_string_exact(_, _)
\* mutant of chunk_string: slice::chunks_exact, which leaves the remainder out
chunk_string_exact(s, chunk_size) ==
    IF Len(s) < chunk_size THEN << >>
    ELSE <<SubSeq(s, 1, chunk_size)>>
         \o chunk_string_exact(SubSeq(s, chunk_size + 1, Len(s)), chunk_size)

RECURSIVE chunk_string(_, _)
\* fn chunk_string (main.rs:105-112): slice::chunks(chunk_size) over the chars
chunk_string(s, chunk_size) ==
    IF s = << >> THEN << >>
    ELSE IF Len(s) <= chunk_size THEN <<s>>
    ELSE <<SubSeq(s, 1, chunk_size)>>
         \o chunk_string(SubSeq(s, chunk_size + 1, Len(s)), chunk_size)

TrainChunk == 5   \* chunk_string(&word, 5), main.rs:48
InputChunk == 3   \* chunk_string(.., 3), main.rs:296

\* learn's tokenization (main.rs:37-49): split on whitespace, separate every
\* word into its runs, chunk every run
learn_tokens(text) ==
    LET whitespace_separated == split_whitespace(text)
        japanese_separated ==
            concat([k \in 1..Len(whitespace_separated) |->
                       separate_tokens(whitespace_separated[k])])
    IN  concat([k \in 1..Len(japanese_separated) |->
                   chunk_string(japanese_separated[k], TrainChunk)])

\* mutant of seed_of: the line is chunked as it is, without separate_tokens
seed_of_raw(line) ==
    LET tokens == chunk_string(line, InputChunk)
    IN  IF tokens = << >> THEN << >> ELSE Head(tokens)

\* main's seed (main.rs:295-300)
seed_of(line) ==
    LET tokens == chunk_string(join(separate_tokens(line), << >>), InputChunk)
    IN  IF tokens = << >> THEN << >> ELSE Head(tokens)

RECURSIVE trim_start(_)
trim_start(s) ==
    IF s # << >> /\ is_whitespace(Head(s)) THEN trim_start(Tail(s)) ELSE s

RECURSIVE trim_end(_)
trim_end(s) ==
    IF s # << >> /\ is_whitespace(s[Len(s)]) THEN trim_end(SubSeq(s, 1, Len(s) - 1)) ELSE s

\* str::trim (main.rs:289)
trim(s) == trim_end(trim_start(s))

-----------------------------------------------------------------------------
(* Word and MarkovChain.                                                   *)

\* Word::new (main.rs:16-21)
Word_new(word) == [word |-> word, transitions |-> << >>]

\* mutant of add_transition: a successor already listed is not listed again
add_transition_dedup(self, new_transition) ==
    IF \E k \in 1..Len(self.transitions) : self.transitions[k] = new_transition
    THEN self
    ELSE [self EXCEPT !.transitions = Append(@, new_transition)]

\* Word::add_transition (main.rs:23-25)
add_transition(self, new_transition) ==
    [self EXCEPT !.transitions = Append(@, new_transition)]

\* mutant of or_insert: the record is written anew at every occurrence (insert)
or_insert_overwrite(map, word_str) ==
    [k \in DOMAIN map \cup {word_str} |->
        IF k = word_str THEN Word_new(word_str) ELSE map[k]]

\* HashMap::entry(k).or_insert_with(|| Word::new(k)) (main.rs:56-58)
or_insert(map, word_str) ==
    IF word_str \in DOMAIN map THEN map
    ELSE [k \in DOMAIN map \cup {word_str} |->
            IF k = word_str THEN Word_new(word_str) ELSE map[k]]

\* mutant of has_next: the last pair of the sequence is left out
has_next_short(sep, idx) == idx + 2 < Len(sep)

\* whether the loop body appends a successor at 0-based index idx:
\* `if let Some(next_word) = separated.get(i + 1)` (main.rs:61)
has_next(sep, idx) == idx + 1 < Len(sep)

\* mutant of learn_body: a record is made only for a token that has a successor
learn_body_nolast(map, sep, idx) ==
    IF has_next(sep, idx)
    THEN [or_insert(map, sep[idx + 1]) EXCEPT
             ![sep[idx + 1]] = add_transition(@, sep[idx + 2])]
    ELSE map

\* One iteration of learn's loop at 0-based index idx (main.rs:53-66)
learn_body(map, sep, idx) ==
    LET word_str == sep[idx + 1]
        inserted == or_insert(map, word_str)
    IN  IF has_next(sep, idx)
        THEN [inserted EXCEPT ![word_str] = add_transition(@, sep[idx + 2])]
        ELSE inserted

\* mutant of weights_of: a position does not count itself
weights_of_others(word) ==
    [j \in 1..Len(word.transitions) |->
        Cardinality({x \in 1..Len(word.transitions) :
                        x # j /\ word.transitions[x] = word.transitions[j]})]

\* The sampling weights of a record (main.rs:80-84): for every position of
\* transitions, the number of positions holding an equal string
weights_of(word) ==
    [j \in 1..Len(word.transitions) |->
        Cardinality({x \in 1..Len(word.transitions) :
                        word.transitions[x] = word.transitions[j]})]

\* WeightedIndex::new(&weights) succeeds iff the vector is non-empty and not
\* all zero (main.rs:87, unwrap)
sampler_ok(weights) == weights # << >> /\ \E j \in 1..Len(weights) : weights[j] > 0

\* The indices dist.sample can return: those of positive weight (main.rs:88)
sample_set(weights) == {j \in 1..Len(weights) : weights[j] > 0}

FALLBACK_SEED == <<FULL_STOP>>   \* "。" (main.rs:94, 98)
FALLBACK_LENGTH == 20            \* main.rs:94, 98
MAIN_LENGTH == 20                \* chain.generate(&start_word, 20), main.rs:302

\* The activation record of generate(start_word, length) on entry (main.rs:72-74).
\* iter counts the completed iterations of `for _ in 0..length`.
new_frame(seed, length) ==
    [start_word |-> seed, length |-> length, result |-> seed,
     current_word |-> seed, iter |-> 0]

\* mutant of fallback_frame: the restart asks for no token beyond its seed
fallback_frame_empty == new_frame(FALLBACK_SEED, 0)

\* mutant of fallback_frame: the restart asks for one token less
fallback_frame_short == new_frame(FALLBACK_SEED, FALLBACK_LENGTH - 1)

\* the activation record of `self.generate("。", 20)` (main.rs:94, 98)
fallback_frame == new_frame(FALLBACK_SEED, FALLBACK_LENGTH)

\* mutant of lookup: the record is looked up with entry().or_insert_with, which
\* makes one for a token that has none
lookup_entry(map, w) == or_insert(map, w)

\* the table after `self.words.get(&current_word)` (main.rs:77): generate
\* holds the chain by shared reference and get only reads
lookup(map, w) == map

\* the lookup of main.rs:77 finds a record
known(map, w) == w \in DOMAIN map

\* main.rs:77-78: the record exists and has a transition
can_advance(map, w) == known(map, w) /\ map[w].transitions # << >>

\* mutant of advance: the sampled token is pushed but the walk stays where it is
advance_stay(f, next_word) ==
    [f EXCEPT !.result = @ \o <<SP>> \o next_word,
              !.iter = @ + 1]

\* main.rs:90-92 on the activation record
advance(f, next_word) ==
    [f EXCEPT !.result = @ \o <<SP>> \o next_word,
              !.current_word = next_word,
              !.iter = @ + 1]

\* mutant of resume: the restart's output is appended to what was accumulated
resume_keep(f, returned) ==
    [f EXCEPT !.result = @ \o <<SP>> \o returned, !.iter = @ + 1]

\* mutant of resume: the walk goes on from the fallback seed after a restart
resume_continue(f, returned) ==
    [f EXCEPT !.result = returned, !.current_word = FALLBACK_SEED, !.iter = @ + 1]

\* mutant of resume: the loop is left after the restart
resume_break(f, returned) ==
    [f EXCEPT !.result = returned, !.iter = f.length]

\* `result = self.generate("。", 20)` completes in the caller (main.rs:94, 98)
\* and the iteration ends
resume(f, returned) ==
    [f EXCEPT !.result = returned, !.iter = @ + 1]


-----------------------------------------------------------------------------
(* Bounds and inputs.                                                      *)

MaxText == 3     \* chars of a text given to a learn call of SpecLearn
MaxLearns == 2   \* learn calls of SpecLearn
MaxCorpus == 3   \* chars of the corpus of SpecGen
MaxLength == 2   \* `length` of the generate calls of SpecGen
MaxLine == 2     \* chars of an input line of Spec
MaxDepth == 2    \* activations of generate the stack holds; one more overflows it
MaxArg == 4      \* chars of the argument of a tokenizer function of SpecFn
MaxWidth == 3    \* chunk_size of the chunk_string calls of SpecFn

\* 今 (class 1), は (class 2), ' '
LearnAlphabet == {20170, 12399, SP}
\* 。 (class 4), 今, ' '
CorpusAlphabet == {FULL_STOP, 20170, SP}
\* 今, は, 。, ' ', ？ (U+FF1F, of no class)
LineAlphabet == {20170, 12399, FULL_STOP, SP, 65311}

\* 今 (class 1), は (class 2), ア (class 3), a and 。 (class 4), ？ (no class), ' '
FnAlphabet == {20170, 12399, 12450, 97, FULL_STOP, 65311, SP}

Texts(alphabet, n) == UNION {[1..k -> alphabet] : k \in 0..n}

\* "今今今今今今は" and "は今今今今今今": runs longer than the chunk width of learn;
\* "今は今 今今" and "今は今は": a token met more than once
LongTexts == {<<20170, 20170, 20170, 20170, 20170, 20170, 12399>>,
              <<12399, 20170, 20170, 20170, 20170, 20170, 20170>>,
              <<20170, 12399, 20170, SP, 20170, 20170>>,
              <<20170, 12399, 20170, 12399>>}

LearnTexts == Texts(LearnAlphabet, MaxText) \cup LongTexts

FnTexts == Texts(FnAlphabet, MaxArg) \cup LongTexts
\* every width up to MaxWidth, and the two widths the program uses
Widths == (1..MaxWidth) \cup {InputChunk, TrainChunk}

\* "。 。今": 。 is followed by 。 and by 今, 今 by nothing;
\* "。今。今": 。 is followed by 今 twice, 今 by 。
BranchingTexts == {<<FULL_STOP, SP, FULL_STOP, 20170>>,
                   <<FULL_STOP, 20170, FULL_STOP, 20170>>}

Corpora == Texts(CorpusAlphabet, MaxCorpus) \cup BranchingTexts

\* stand-ins for the text of main.rs:126-275: "。今は。", where every token has
\* a successor, and "。今 。は", where は has none
MainTexts == {<<FULL_STOP, 20170, 12399, FULL_STOP>>,
              <<FULL_STOP, 20170, SP, FULL_STOP, 12399>>}

EXIT == <<101, 120, 105, 116>>   \* "exit" (main.rs:291)
\* "exit" and " exit\n"
ExitLines == {EXIT, <<SP>> \o EXIT \o <<10>>}
Lines == Texts(LineAlphabet, MaxLine) \cup ExitLines
\* Texts and lines of SpecLine.  The texts: those of ？ and ' ' only, which
\* hold no token; "。今は。", where every token has a successor; "。今" and
\* " 。今 ", where 今 has none.  The lines: those of ？, ' ' and 今, and "exit".
QuietTexts == Texts({65311, SP}, MaxText)
            \cup {<<FULL_STOP, 20170, 12399, FULL_STOP>>,
                  <<FULL_STOP, 20170>>,
                  <<SP, FULL_STOP, 20170, SP>>}
QuietLines == Texts({65311, SP, 20170}, MaxLine) \cup ExitLines

\* 。, 今, "", and ア, which no corpus holds
Seeds == {<<FULL_STOP>>, <<20170>>, << >>, <<12450>>}

\* History of the outermost generate call: its arguments, the number of
\* generate("。", 20) calls its own loop has made, the iteration (0-based) of
\* its first dead end (-1: none), and whether it has returned.
\* restart_result is what the last generate("。", 20) it called returned to it.
NoCall == [start_word |-> << >>, length |-> -1, restarts |-> 0, first_dead |-> -1,
           restart_result |-> << >>, returned |-> FALSE]

new_call(seed, length) ==
    [start_word |-> seed, length |-> length, restarts |-> 0, first_dead |-> -1,
     restart_result |-> << >>, returned |-> FALSE]

-----------------------------------------------------------------------------
(* The program.                                                            *)

\* MarkovChain::default() (main.rs:124)
Init ==
    /\ pc = "start"
    /\ words = << >>
    /\ separated = << >>
    /\ i = 0
    /\ stack = << >>
    /\ response = << >>
    /\ input = << >>
    /\ start_word = << >>
    /\ learned = << >>
    /\ before = << >>
    /\ call = NoCall
    /\ fn_name = "none"
    /\ fn_arg = << >>
    /\ fn_width = 1
    /\ fn_out = << >>

\* learn is entered: its tokenization (main.rs:37-49), the loop is next
learn_enter(text) ==
    /\ separated' = learn_tokens(text)
    /\ i' = 0
    /\ pc' = "learn"
    /\ learned' = Append(learned, learn_tokens(text))
    /\ before' = words
    /\ UNCHANGED <<words, stack, response, input, start_word, call>>
    /\ UNCHANGED fn_vars

\* chain.learn(text) of main (main.rs:277)
MainLearn(text) ==
    /\ pc = "start"
    /\ learn_enter(text)

\* a call of MarkovChain::learn on a chain that is not in a call
LearnCall(text) ==
    /\ pc \in {"start", "loop"}
    /\ Len(learned) < MaxLearns
    /\ learn_enter(text)

\* one iteration of `for i in 0..separated.len()` (main.rs:52-67)
LearnStep ==
    /\ pc = "learn"
    /\ i < Len(separated)
    /\ words' = learn_body(words, separated, i)
    /\ i' = i + 1
    /\ UNCHANGED <<pc, separated, stack, response, input, start_word, learned, before, call>>
    /\ UNCHANGED fn_vars

\* the loop is over and learn returns (main.rs:67-68)
LearnReturn ==
    /\ pc = "learn"
    /\ i = Len(separated)
    /\ pc' = "loop"
    /\ separated' = << >>
    /\ i' = 0
    /\ UNCHANGED <<words, stack, response, input, start_word, learned, before, call>>
    /\ UNCHANGED fn_vars

\* main reads a line (main.rs:285-302): "exit" ends the loop, any other line
\* gives the seed of generate(&start_word, 20)
ReadLine(line) ==
    /\ pc = "loop"
    /\ input' = trim(line)
    /\ IF trim(line) = EXIT
       THEN /\ pc' = "exit"
            /\ UNCHANGED <<start_word, stack, call>>
       ELSE /\ pc' = "generate"
            /\ start_word' = seed_of(trim(line))
            /\ stack' = <<new_frame(seed_of(trim(line)), MAIN_LENGTH)>>
            /\ call' = new_call(seed_of(trim(line)), MAIN_LENGTH)
    /\ UNCHANGED <<words, separated, i, response, learned, before>>
    /\ UNCHANGED fn_vars

\* a call generate(seed, length) on a chain that is not in a call (main.rs:71-74)
Call(seed, length) ==
    /\ pc = "loop"
    /\ pc' = "generate"
    /\ stack' = <<new_frame(seed, length)>>
    /\ call' = new_call(seed, length)
    /\ UNCHANGED <<words, separated, i, response, input, start_word, learned, before>>
    /\ UNCHANGED fn_vars

top == stack[Len(stack)]

\* mutant of in_loop: the loop runs for 0..=length
in_loop_inclusive == pc = "generate" /\ top.iter <= top.length

\* the innermost activation is at the head of an iteration of its loop (main.rs:76)
in_loop == pc = "generate" /\ top.iter < top.length

\* main.rs:78-92: the record has transitions; a successor is sampled and the
\* walk advances.  A sampler that cannot be built panics (unwrap, main.rs:87).
Advance ==
    /\ in_loop
    /\ can_advance(words, top.current_word)
    /\ LET word == words[top.current_word]
           weights == weights_of(word)
       IN  IF sampler_ok(weights)
           THEN /\ \E idx \in sample_set(weights) :
                     stack' = [stack EXCEPT ![Len(stack)] =
                                  advance(@, word.transitions[idx])]
                /\ pc' = pc
           ELSE /\ pc' = "panic"
                /\ stack' = stack
    /\ words' = lookup(words, top.current_word)
    /\ UNCHANGED <<separated, i, response, input, start_word, learned, before, call>>
    /\ UNCHANGED fn_vars

\* `result = self.generate("。", 20)` is entered (main.rs:94, 98): a new
\* activation, or the stack is exhausted and the process is aborted
restart ==
    /\ IF Len(stack) < MaxDepth
       THEN /\ stack' = Append(stack, fallback_frame)
            /\ pc' = pc
       ELSE /\ pc' = "overflow"
            /\ stack' = stack
    /\ call' = IF Len(stack) = 1
               THEN [call EXCEPT !.restarts = @ + 1,
                                 !.first_dead = IF @ = -1 THEN top.iter ELSE @]
               ELSE call
    /\ words' = lookup(words, top.current_word)
    /\ UNCHANGED <<separated, i, response, input, start_word, learned, before>>
    /\ UNCHANGED fn_vars

\* main.rs:93-95: the record exists and has no transition
RestartTerminal ==
    /\ in_loop
    /\ known(words, top.current_word)
    /\ ~can_advance(words, top.current_word)
    /\ restart

\* main.rs:96-99: no record
RestartUnknown ==
    /\ in_loop
    /\ ~known(words, top.current_word)
    /\ restart

\* main.rs:101: the loop is over and the activation returns its result, to the
\* activation that called it (which assigns it to its own result) or to the
\* first caller
Return ==
    /\ pc = "generate"
    /\ top.iter = top.length
    /\ IF Len(stack) > 1
       THEN /\ stack' = [SubSeq(stack, 1, Len(stack) - 1) EXCEPT ![Len(stack) - 1] =
                            resume(@, top.result)]
            /\ call' = IF Len(stack) = 2
                       THEN [call EXCEPT !.restart_result = top.result]
                       ELSE call
            /\ UNCHANGED <<pc, response>>
       ELSE /\ stack' = << >>
            /\ response' = top.result
            /\ call' = [call EXCEPT !.returned = TRUE]
            /\ pc' = "print"
    /\ UNCHANGED <<words, separated, i, input, start_word, learned, before>>
    /\ UNCHANGED fn_vars

\* println!("Bot: {}", response) and the next round of the loop (main.rs:303, 281)
Println ==
    /\ pc = "print"
    /\ pc' = "loop"
    /\ UNCHANGED <<words, separated, i, stack, response, input, start_word, learned, before, call>>
    /\ UNCHANGED fn_vars

\* The program: main learns its text once, then reads lines until "exit"
Next ==
    \/ \E text \in MainTexts : MainLearn(text)
    \/ LearnStep
    \/ LearnReturn
    \/ \E line \in Lines : ReadLine(line)
    \/ Advance
    \/ RestartTerminal
    \/ RestartUnknown
    \/ Return
    \/ Println

Spec == Init /\ [][Next]_vars

\* MarkovChain::learn alone: up to MaxLearns calls on one chain
NextLearn ==
    \/ \E text \in LearnTexts : LearnCall(text)
    \/ LearnStep
    \/ LearnReturn

SpecLearn == Init /\ [][NextLearn]_vars

\* MarkovChain::generate with any seed and length, on a chain that learned one corpus
NextGen ==
    \/ \E text \in Corpora : MainLearn(text)
    \/ LearnStep
    \/ LearnReturn
    \/ \E seed \in Seeds, length \in 0..MaxLength : Call(seed, length)
    \/ Advance
    \/ RestartTerminal
    \/ RestartUnknown
    \/ Return
    \/ Println

SpecGen == Init /\ [][NextGen]_vars

\* a step of a running call of generate
GenerateStep == Advance \/ RestartTerminal \/ RestartUnknown \/ Return

\* A chain that learns up to MaxLearns texts and answers lines as main does
NextLine ==
    \/ \E text \in QuietTexts : LearnCall(text)
    \/ LearnStep
    \/ LearnReturn
    \/ \E line \in QuietLines : ReadLine(line)
    \/ Advance
    \/ RestartTerminal
    \/ RestartUnknown
    \/ Return
    \/ Println

SpecLine == Init /\ [][NextLine]_vars

\* The tokenizer functions on their own: an argument is chosen, then
\* chunk_string or separate_tokens is applied to it
InitFn ==
    /\ pc = "fn"
    /\ words = << >>
    /\ separated = << >>
    /\ i = 0
    /\ stack = << >>
    /\ response = << >>
    /\ input = << >>
    /\ start_word = << >>
    /\ learned = << >>
    /\ before = << >>
    /\ call = NoCall
    /\ fn_name = "none"
    /\ fn_arg \in FnTexts
    /\ fn_width \in Widths
    /\ fn_out = << >>

\* chunk_string(fn_arg, fn_width) (main.rs:105-112)
ChunkString ==
    /\ pc = "fn"
    /\ pc' = "fn_done"
    /\ fn_name' = "chunk_string"
    /\ fn_out' = chunk_string(fn_arg, fn_width)
    /\ UNCHANGED <<words, separated, i, stack, response, input, start_word, learned, before, call>>
    /\ UNCHANGED <<fn_arg, fn_width>>

\* separate_tokens(fn_arg) (main.rs:115-120)
SeparateTokens ==
    /\ pc = "fn"
    /\ pc' = "fn_done"
    /\ fn_name' = "separate_tokens"
    /\ fn_out' = separate_tokens(fn_arg)
    /\ UNCHANGED <<words, separated, i, stack, response, input, start_word, learned, before, call>>
    /\ UNCHANGED <<fn_arg, fn_width>>

NextFn ==
    \/ ChunkString
    \/ SeparateTokens

SpecFn == InitFn /\ [][NextFn]_vars

-----------------------------------------------------------------------------
(* Vocabulary of the properties.                                           *)

RECURSIVE pieces_from(_, _, _)
pieces_from(s, p, acc) ==
    IF p > Len(s) THEN <<acc>>
    ELSE IF s[p] = SP THEN <<acc>> \o pieces_from(s, p + 1, << >>)
    ELSE pieces_from(s, p + 1, Append(acc, s[p]))

\* the tokens of a space-joined string: what stands between its spaces
pieces(s) == pieces_from(s, 1, << >>)

\* the number of positions of seq that hold v
count(v, seq) == Cardinality({k \in 1..Len(seq) : seq[k] = v})

elems(seq) == {seq[k] : k \in 1..Len(seq)}

RECURSIVE followers_from(_, _, _)
followers_from(T, t, k) ==
    IF k >= Len(T) THEN << >>
    ELSE (IF T[k] = t THEN <<T[k + 1]>> ELSE << >>) \o followers_from(T, t, k + 1)

\* the tokens that follow an occurrence of t in T, in the order of the occurrences
followers(T, t) == followers_from(T, t, 1)

RECURSIVE sum_at(_, _)
\* the sum of w over the positions of the set at
sum_at(w, at) ==
    IF at = {} THEN 0
    ELSE LET k == CHOOSE x \in at : TRUE IN w[k] + sum_at(w, at \ {k})

\* the total sampling weight of the successor value v of a record
total_weight(word, v) ==
    sum_at(weights_of(word), {k \in 1..Len(word.transitions) : word.transitions[k] = v})

\* the fallback seed has a record with a successor
fallback_live == can_advance(words, FALLBACK_SEED)

RECURSIVE can_complete(_, _)
\* some walk of n iterations from the token w meets no dead end: a
\* generate(w, n) can return without a restart
can_complete(n, w) ==
    \/ n = 0
    \/ /\ can_advance(words, w)
       /\ \E v \in elems(words[w].transitions) : can_complete(n - 1, v)

\* the outermost generate call has returned to its caller
has_returned == pc = "print" /\ call.returned

\* the outermost generate call met a dead end
met_dead_end == call.first_dead >= 0

-----------------------------------------------------------------------------
(* C1 as stated: a generate(seed, length) that returns yields at most      *)
(* length + 1 tokens, also when a dead end was met.                        *)
C1_AtMostLengthPlusOne ==
    has_returned => Len(pieces(response)) <= call.length + 1

(* C1, amended: a generate(seed, length) that returns yields at most       *)
(* length + 1 tokens when it met no dead end, and at most 21 tokens (the   *)
(* fallback seed and 20 more) when it met one.                             *)
C1_TokenBound ==
    has_returned =>
        IF met_dead_end
        THEN Len(pieces(response)) <= FALLBACK_LENGTH + 1
        ELSE Len(pieces(response)) <= call.length + 1

C1_Witness ==
    /\ has_returned
    /\ met_dead_end
    /\ call.length = 1
    /\ Len(pieces(response)) = FALLBACK_LENGTH + 1

(* C2: where generate samples the successor of a token with a non-empty    *)
(* successor list, the total weight of each distinct successor value       *)
(* equals the number of its occurrences in the list.                       *)
C2_WeightIsCount ==
    (in_loop /\ can_advance(words, top.current_word)) =>
        \A v \in elems(words[top.current_word].transitions) :
            total_weight(words[top.current_word], v)
                = count(v, words[top.current_word].transitions)

(* C3: a generate(seed, length) with length >= 1 that met a dead end and   *)
(* returned gives back what its last generate("。", 20) returned; the      *)
(* first token of that is "。", and nothing of the seed or of the tokens   *)
(* accumulated before the dead end stands in front of it.                  *)
C3_RestartOutput ==
    (has_returned /\ met_dead_end /\ call.length >= 1) =>
        /\ response = call.restart_result
        /\ Head(pieces(response)) = FALLBACK_SEED

C3_Witness ==
    /\ has_returned
    /\ call.restarts = 2
    /\ call.start_word # FALLBACK_SEED
    /\ known(words, call.start_word)

(* C4: if "。" has a record with at least one successor, every call        *)
(* terminates, the chain of recursive restarts is bounded: the restarts    *)
(* never exhaust the stack on a table on which no generate("。", 20) can   *)
(* complete (there every restart restarts in turn, whatever the stack      *)
(* holds).                                                                 *)
C4_RestartsBounded ==
    fallback_live =>
        ~(pc = "overflow" /\ ~can_complete(FALLBACK_LENGTH, FALLBACK_SEED))

(* C5: if "。" has no record or no successor, a generate(seed, length)     *)
(* with length >= 1 that meets a dead end never returns: every restart     *)
(* meets a dead end in its first iteration, before it has advanced or      *)
(* got anything back, and restarts again.                                  *)
C5_DeadFallbackNeverReturns ==
    (pc \notin {"start", "learn"} /\ ~fallback_live) =>
        /\ met_dead_end => ~call.returned
        /\ \A d \in 2..Len(stack) :
              stack[d].iter = 0 /\ stack[d].result = FALLBACK_SEED

C5_Witness ==
    /\ ~fallback_live
    /\ pc = "overflow"
    /\ call.length >= 1
    /\ Len(stack) = MaxDepth

(* C6: after one learn of the token sequence T on an empty table, the      *)
(* successor list of every token t is the sequence of the T[k+1] with      *)
(* T[k] = t, in the order of k, duplicates kept; every token of T, the     *)
(* last one too, has a record, and the last position adds no successor.    *)
C6_SuccessorLists ==
    (pc = "loop" /\ Len(learned) = 1) =>
        /\ DOMAIN words = elems(learned[1])
        /\ \A t \in DOMAIN words :
              /\ words[t].word = t
              /\ words[t].transitions = followers(learned[1], t)

C6_Witness ==
    /\ pc = "loop"
    /\ Len(learned) = 1
    /\ Len(learned[1]) >= 4
    /\ \E t \in DOMAIN words : Len(words[t].transitions) >= 2
    /\ words[learned[1][Len(learned[1])]].transitions = << >>

(* C7: after any sequence of learn calls the keys of the table are the     *)
(* distinct tokens of the learned texts, no more and no less.              *)
C7_KeysAreTokens ==
    pc \in {"start", "loop"} =>
        DOMAIN words = UNION {elems(learned[k]) : k \in 1..Len(learned)}

C7_Witness ==
    /\ pc = "loop"
    /\ Len(learned) = 2
    /\ \E t \in DOMAIN words :
          /\ words[t].transitions = << >>
          /\ t \notin elems(learned[1])

(* C8: for a line other than "exit" the seed is the first chunk of at most *)
(* 3 chars of the first Stage-1 run of the line.                           *)
C8_SeedIsFirstChunk ==
    pc \in {"generate", "print", "overflow"} =>
        start_word =
            (IF separate_tokens(input) = << >> THEN << >>
             ELSE Head(chunk_string(Head(separate_tokens(input)), InputChunk)))

(* C9: generate(seed, 0) returns the seed, whether or not the seed has a   *)
(* record or successors, and makes no restart.                             *)
C9_LengthZero ==
    call.length = 0 =>
        /\ call.restarts = 0
        /\ Len(stack) <= 1
        /\ pc # "overflow"
        /\ call.returned => response = call.start_word

C9_Witness ==
    /\ has_returned
    /\ call.length = 0
    /\ ~known(words, call.start_word)
    /\ response = call.start_word
    /\ words # << >>

(* C10: learning the same token sequence twice on an empty table doubles   *)
(* every frequency: for every t and v the successor list of t holds v      *)
(* twice as often after the second learn as after the first, the keys      *)
(* are unchanged, and the last token is followed by the first only as      *)
(* often as it is inside the sequence.                                     *)
C10_Doubles ==
    (pc = "loop" /\ Len(learned) = 2 /\ learned[1] = learned[2]) =>
        /\ DOMAIN words = DOMAIN before
        /\ \A t \in DOMAIN words : \A v \in DOMAIN words :
              /\ count(v, words[t].transitions) = 2 * count(v, before[t].transitions)
              /\ count(v, words[t].transitions) = 2 * count(v, followers(learned[1], t))

C10_Witness ==
    /\ pc = "loop"
    /\ Len(learned) = 2
    /\ learned[1] = learned[2]
    /\ Len(learned[1]) >= 3
    /\ learned[1][1] # learned[1][Len(learned[1])]
    /\ \E t \in DOMAIN words : \E v \in DOMAIN words :
          count(v, words[t].transitions) = 4

\* seq is a prefix of longer
is_prefix(seq, longer) ==
    Len(seq) <= Len(longer) /\ seq = SubSeq(longer, 1, Len(seq))

(* C11: the table only grows: in every step a key stays a key and the      *)
(* successor list of every key before the step is a prefix of its          *)
(* successor list after the step.                                          *)
C11_GrowthOnly ==
    [][\A t \in DOMAIN words :
          /\ t \in DOMAIN words'
          /\ is_prefix(words[t].transitions, words'[t].transitions)]_vars

C11_Witness ==
    /\ pc = "loop"
    /\ Len(learned) = 2
    /\ \E t \in DOMAIN before :
          /\ before[t].transitions # << >>
          /\ Len(words[t].transitions) > Len(before[t].transitions)

\* generate is running, or has returned and its result is being printed
in_generate == pc \in {"generate", "print"}

(* C12: generate leaves the table unchanged: from the call of generate to  *)
(* its return, through every restart, no step changes the key set or a     *)
(* successor list; the same holds for the step that makes the call.        *)
C12_GenerateReadsOnly ==
    [][(in_generate \/ in_generate') => words' = words]_vars

C12_Witness ==
    /\ has_returned
    /\ call.restarts >= 1
    /\ words # << >>

(* C13: chunk_string(s, N) with N >= 1 returns pieces whose concatenation   *)
(* in order is s; every piece has at least one and at most N chars, every  *)
(* piece but the last exactly N; a non-empty s of at most N chars gives    *)
(* the one piece s, and the empty string gives no piece.                   *)
C13_ChunkString ==
    fn_name = "chunk_string" =>
        /\ concat(fn_out) = fn_arg
        /\ \A k \in 1..Len(fn_out) : Len(fn_out[k]) \in 1..fn_width
        /\ \A k \in 1..(Len(fn_out) - 1) : Len(fn_out[k]) = fn_width
        /\ (fn_arg # << >> /\ Len(fn_arg) <= fn_width) => fn_out = <<fn_arg>>
        /\ fn_arg = << >> => fn_out = << >>

C13_Witness ==
    /\ fn_name = "chunk_string"
    /\ fn_width = TrainChunk
    /\ Len(fn_out) = 2
    /\ Len(fn_out[2]) = 2

\* the class of the char at position k of the argument
class_at(k) == char_class(fn_arg[k])

\* The maximal runs of the argument, as pairs <<first, last>> of positions:
\* every char of the run is of the run's class, which is one of the four, and
\* the char before it and the char after it, if any, are not of that class.
runs ==
    {r \in (1..Len(fn_arg)) \X (1..Len(fn_arg)) :
        /\ r[1] <= r[2]
        /\ class_at(r[1]) # 0
        /\ \A k \in r[1]..r[2] : class_at(k) = class_at(r[1])
        /\ r[1] = 1 \/ class_at(r[1] - 1) # class_at(r[1])
        /\ r[2] = Len(fn_arg) \/ class_at(r[2] + 1) # class_at(r[1])}

(* C14: separate_tokens returns, from left to right, exactly the maximal    *)
(* runs of chars of one of the four classes: a char of no class is in no   *)
(* token and ends the run before it, a char of a class is in exactly one   *)
(* token, at its place, and no token holds chars of two classes.           *)
C14_MaximalRuns ==
    fn_name = "separate_tokens" =>
        /\ Len(fn_out) = Cardinality(runs)
        /\ \A r \in runs :
              fn_out[Cardinality({q \in runs : q[1] <= r[1]})] = SubSeq(fn_arg, r[1], r[2])

C14_Witness ==
    /\ fn_name = "separate_tokens"
    /\ fn_arg = <<97, FULL_STOP, 12399, 65311>>
    /\ fn_out = <<<<97, FULL_STOP>>, <<12399>>>>

\* the innermost activation is about to build its sampler (main.rs:78-87)
builds_sampler == in_loop /\ can_advance(words, top.current_word)

(* C15: wherever generate builds the sampler, the weight vector is as long  *)
(* as the successor list, which has at least one element, and every weight *)
(* is an integer of at least 1: the sampler is never built from an empty   *)
(* or all-zero vector and its construction never fails.                    *)
C15_SamplerBuilt ==
    /\ pc # "panic"
    /\ builds_sampler =>
          LET word == words[top.current_word]
              weights == weights_of(word)
          IN  /\ Len(weights) = Len(word.transitions)
              /\ Len(weights) >= 1
              /\ \A j \in 1..Len(weights) : weights[j] \in Nat /\ weights[j] >= 1
              /\ sampler_ok(weights)

C15_Witness ==
    /\ builds_sampler
    /\ Len(stack) = 2
    /\ top.iter >= 1
    /\ weights_of(words[top.current_word]) = <<1, 1>>

\* main has read a line that is not "exit" and called generate with its seed
answering == pc \in {"generate", "print", "overflow", "panic"}

\* the line read holds no char of the four classes (it may be empty)
classless_line == \A k \in 1..Len(input) : char_class(input[k]) = 0

(* C16: a line that is empty or holds only chars of none of the four       *)
(* classes gives the seed ""; "" is never a key of the table, whatever     *)
(* was learned; so generate("", 20) finds no record in its first           *)
(* iteration and takes the restart there, as a branch of its code: the     *)
(* call does not panic.                                                    *)
C16_EmptySeed ==
    /\ << >> \notin DOMAIN words
    /\ pc # "panic"
    /\ (answering /\ classless_line) =>
          /\ start_word = << >>
          /\ call.start_word = << >>
          /\ call.length = MAIN_LENGTH
    /\ (answering /\ call.start_word = << >>) =>
          \/ stack = <<new_frame(<< >>, MAIN_LENGTH)>> /\ call.restarts = 0
          \/ call.first_dead = 0 /\ call.restarts >= 1

C16_Witness ==
    /\ has_returned
    /\ input = <<65311, 65311>>
    /\ call.start_word = << >>
    /\ call.first_dead = 0
    /\ call.restarts = MAIN_LENGTH
    /\ Len(learned) = MaxLearns

(* C17: a call that met no dead end returns the seed followed by exactly    *)
(* `length` further tokens, length + 1 in all, and every token after the   *)
(* first is in the successor list of the token just before it: only        *)
(* learned transitions are emitted.                                        *)
C17_WalkOfTransitions ==
    (has_returned /\ ~met_dead_end) =>
        LET out == pieces(response)
        IN  /\ Len(out) = call.length + 1
            /\ out[1] = call.start_word
            /\ \A k \in 2..Len(out) :
                  /\ known(words, out[k - 1])
                  /\ out[k] \in elems(words[out[k - 1]].transitions)

C17_Witness ==
    /\ has_returned
    /\ ~met_dead_end
    /\ call.length = MaxLength
    /\ pieces(response)[2] # pieces(response)[1]
    /\ Len(words[call.start_word].transitions) >= 2

\* the outermost activation has called generate("。", 20) and waits for it
restart_pending == Len(stack) > 1

(* C18: once the outermost call has met a dead end, at iteration k, its     *)
(* current token is never advanced again and every later iteration meets   *)
(* the same dead end: each iteration from k on calls generate("。", 20)    *)
(* once, length - k calls in all, and the call returns what the last of    *)
(* them returned.                                                          *)
C18_RestartEveryIteration ==
    met_dead_end =>
        /\ stack # << >> =>
              /\ ~can_advance(words, stack[1].current_word)
              /\ stack[1].iter >= call.first_dead
              /\ call.restarts = (stack[1].iter - call.first_dead)
                                  + (IF restart_pending THEN 1 ELSE 0)
        /\ has_returned =>
              /\ call.restarts = call.length - call.first_dead
              /\ response = call.restart_result

C18_Witness ==
    /\ has_returned
    /\ call.length = MaxLength
    /\ call.first_dead = 1
    /\ call.restarts = MaxLength - 1
    /\ response = call.restart_result

\* every token of every successor list has a record
closed ==
    \A t \in DOMAIN words :
        \A v \in elems(words[t].transitions) : known(words, v)

\* no learn call is running
learn_done == pc \notin {"start", "learn"}

\* the innermost activation is at the head of an iteration and its current
\* token has no record (main.rs:96-99)
at_unknown == in_loop /\ ~known(words, top.current_word)

(* C19 as stated: after learn the table is closed under successors; a walk *)
(* started at a known token never reaches an unknown one; and an unknown   *)
(* dead end occurs only in the very first iteration of a call, on the      *)
(* seed.                                                                   *)
C19_UnknownOnlyAtFirstIteration ==
    /\ learn_done => closed
    /\ (pc = "generate" /\ known(words, top.start_word)) =>
          known(words, top.current_word)
    /\ at_unknown => (top.current_word = top.start_word /\ top.iter = 0)

(* C19, amended: after learn the table is closed under successors; a walk  *)
(* started at a known token never reaches an unknown one; an unknown dead  *)
(* end occurs only on the seed of a call: first in its very first          *)
(* iteration and then, the current token being the seed still, in every    *)
(* later iteration of that call.                                           *)
C19_UnknownOnlyOnSeed ==
    /\ learn_done => closed
    /\ (pc = "generate" /\ known(words, top.start_word)) =>
          known(words, top.current_word)
    /\ at_unknown => top.current_word = top.start_word
    /\ (pc = "generate" /\ ~known(words, stack[1].start_word)) =>
          /\ stack[1].current_word = stack[1].start_word
          /\ call.first_dead = (IF call.restarts = 0 THEN -1 ELSE 0)
          /\ call.restarts = stack[1].iter + (IF restart_pending THEN 1 ELSE 0)

C19_Witness ==
    /\ at_unknown
    /\ Len(stack) = 1
    /\ top.iter = 1
    /\ top.current_word = << 12450 >>
    /\ call.restarts = 1
    /\ words # << >>

RECURSIVE reachable_from(_)
\* the tokens reachable from the tokens of set through successor lists
reachable_from(set) ==
    LET more == set \cup UNION {elems(words[t].transitions) : t \in set \cap DOMAIN words}
    IN  IF more = set THEN set ELSE reachable_from(more)

\* "。" is a key and no token reachable from it has an empty successor list
fallback_safe ==
    /\ known(words, FALLBACK_SEED)
    /\ \A t \in reachable_from({FALLBACK_SEED}) :
          known(words, t) => words[t].transitions # << >>

\* The steps a running call has left when no restart restarts in turn: every
\* iteration of the outermost activation costs at most a restart, the
\* iterations of the restart and its return; the last step is the return of
\* the outermost activation.
steps_left ==
    IF stack = << >> THEN 0
    ELSE IF Len(stack) = 1
         THEN (stack[1].length - stack[1].iter) * (FALLBACK_LENGTH + 2) + 1
         ELSE (stack[1].length - stack[1].iter - 1) * (FALLBACK_LENGTH + 2) + 1
              + (stack[2].length - stack[2].iter) + 1

(* C20: if "。" is a key and no token with an empty successor list is       *)
(* reachable from "。", then every call of generate terminates (a running  *)
(* call can always take a step and every step lowers steps_left, which is  *)
(* never negative), a restart never restarts in turn (the recursion is     *)
(* never deeper than one restart and never exhausts the stack), and a call *)
(* that restarted returns exactly 21 tokens.                               *)
C20_SafeFallback ==
    /\ []((learn_done /\ fallback_safe) =>
            /\ pc # "overflow"
            /\ Len(stack) <= 2
            /\ Len(stack) = 2 => (pc = "generate" /\ can_advance(words, top.current_word))
            /\ pc = "generate" => (ENABLED GenerateStep /\ steps_left >= 1)
            /\ (has_returned /\ call.restarts >= 1) => Len(pieces(response)) = 21)
    /\ [][(pc = "generate" /\ fallback_safe) =>
            (steps_left' < steps_left /\ steps_left' >= 0)]_vars

C20_Witness ==
    /\ fallback_safe
    /\ has_returned
    /\ call.restarts = MaxLength
    /\ Len(pieces(response)) = 21
    /\ Cardinality(DOMAIN words) = 2

=============================================================================
